---- MODULE Spec2Model ----
(***************************************************************************)
(* Model of the FCPR tensor tools.                                         *)
(*                                                                         *)
(*   equation4tensor.py : your_function (f1), another_function (f2),       *)
(*                        find_angles (the 721 x 721 grid scan), main.     *)
(*   matrix_process.py  : process_matrix and main.                         *)
(*                                                                         *)
(* Numbers.  A Python float argument is a record: a finite value counted   *)
(* in hundredths (Fin(5) is 0.05), NaN, or an infinity.  math.sin(x) ** 2  *)
(* is read from a table of sin^2 at the half-degree grid steps, rounded to *)
(* sixteenths; f1 and f2 are kept as exact fractions numerator /           *)
(* denominator over that table, so that a comparison is done by            *)
(* cross-multiplication and a zero denominator is an explicit outcome      *)
(* (Python raises ZeroDivisionError on a float division by 0.0).  An angle *)
(* in degrees is counted in tenths of a degree (i / 2 is i * 5).           *)
(* One step of the scan is one pass of the outer loop: a whole row.        *)
(***************************************************************************)
EXTENDS Integers, Sequences, FiniteSets, TLC

VARIABLES r1, r2, target1, target2, tolerance,   \* the arguments of find_angles
          i, j,                                  \* the loop variables of find_angles
          pc,                                    \* where the run of equation4tensor.py is
          result,                                \* what find_angles returned
          evals1, evals2,                        \* calls of your_function / another_function made by find_angles
          status,                                \* the exit status of the process (-1 while it runs)
          output,                                \* what main printed last
          first,                                 \* an earlier call of find_angles: its result and tolerance
          mpc,                                   \* where the run of matrix_process.py is
          job,                                   \* its command line and the input spreadsheet
          row,                                   \* the loop variable of process_matrix
          returned,                              \* what process_matrix returned
          exc,                                   \* the exception raised in its try block
          outFile,                               \* the output spreadsheet on disk
          mout,                                  \* what matrix_process.py printed last
          mstatus                                \* the exit status of matrix_process.py (-1 while it runs)

searchVars == <<r1, r2, target1, target2, tolerance, i, j, pc, result, evals1, evals2, status, output, first>>
matrixVars == <<mpc, job, row, returned, exc, outFile, mout, mstatus>>
vars == <<searchVars, matrixVars>>

\* range(0, 721, 1): the exclusive end of both loops.
GridEnd == 721

\* round(16 * sin(k / 360 * pi) ** 2) for the grid steps k = 0 .. 180 (0 to 90 degrees).
Sin2Tab ==
  << 0, 0, 0, 0, 0, 0, 0, 0, 0, 0, 0, 0, 0, 0, 0, 0, 0, 0, 0, 0,
     0, 1, 1, 1, 1, 1, 1, 1, 1, 1, 1, 1, 1, 1, 1, 1, 2, 2, 2, 2,
     2, 2, 2, 2, 2, 2, 2, 3, 3, 3, 3, 3, 3, 3, 3, 3, 4, 4, 4, 4,
     4, 4, 4, 4, 4, 5, 5, 5, 5, 5, 5, 5, 6, 6, 6, 6, 6, 6, 6, 6,
     7, 7, 7, 7, 7, 7, 7, 8, 8, 8, 8, 8, 8, 8, 9, 9, 9, 9, 9, 9,
     9, 10, 10, 10, 10, 10, 10, 10, 10, 11, 11, 11, 11, 11, 11, 11, 12, 12, 12, 12,
     12, 12, 12, 12, 12, 13, 13, 13, 13, 13, 13, 13, 13, 13, 14, 14, 14, 14, 14, 14,
     14, 14, 14, 14, 14, 15, 15, 15, 15, 15, 15, 15, 15, 15, 15, 15, 15, 15, 15, 15,
     16, 16, 16, 16, 16, 16, 16, 16, 16, 16, 16, 16, 16, 16, 16, 16, 16, 16, 16, 16,
     16 >>

\* The table's unit: sin^2 of 90 degrees.
Scale == Sin2Tab[181]

\* math.sin(k / 360 * math.pi) ** 2 for a grid step k, in units of 1 / Scale.
Sin2(k) ==
  LET m == k % 360
  IN  Sin2Tab[(IF m > 180 THEN 360 - m ELSE m) + 1]

\* math.cos(k / 360 * math.pi) ** 2 for a grid step k: sin^2 a quarter turn on.
Cos2(k) == Sin2(k + 180)

\* In the operators below st, ct are sin^2 and cos^2 of theta and sc, cc are
\* sin^2 and cos^2 of chi, each in units of 1 / Scale; a and b are r1 and r2.

\* r1 * cos(chi) ** 2 + r2 * sin(chi) ** 2, in units of 1 / Scale.
MixA(sc, cc, a, b) == a * cc + b * sc

\* r1 * sin(chi) ** 2 + r2 * cos(chi) ** 2, in units of 1 / Scale.
MixB(sc, cc, a, b) == a * sc + b * cc

\* denominator of your_function and of another_function (the same
\* expression in both), in units of 1 / Scale^4.
Denominator(st, ct, sc, cc, a, b) ==
  (ct * MixA(sc, cc, a, b) + MixB(sc, cc, a, b) * Scale + st * Scale) ^ 2

\* numerator of your_function, in units of 1 / Scale^4.
Numerator1(st, ct, sc, cc, a, b) ==
  4 * (st * MixA(sc, cc, a, b) + ct * Scale) ^ 2

\* numerator of another_function, in units of 1 / Scale^4.
Numerator2(st, ct, sc, cc, a, b) ==
  2 * (st * ct * (MixA(sc, cc, a, b) - Scale) ^ 2
       + st * sc * cc * (a - b) ^ 2 * Scale)

\* A Python float: a finite value counted in hundredths, or NaN, or an infinity.
Fin(v) == [kind |-> "finite", v |-> v]
NaN == [kind |-> "nan", v |-> 0]
PosInf == [kind |-> "inf", v |-> 1]
NegInf == [kind |-> "inf", v |-> -1]

\* math.isfinite.
IsFinite(x) == x.kind = "finite"

\* abs(x) of a finite value.
Abs(x) == IF x < 0 THEN -x ELSE x

\* The comparison with its sign turned: abs(...) > tol.
WithinTolReversed(num, den, target, tol) ==
  /\ IsFinite(target)
  /\ \/ tol = NegInf
     \/ /\ IsFinite(tol)
        /\ Abs(100 * num - target.v * den) > tol.v * den

\* abs(num / den - target) < tol with IEEE comparisons: num / den is finite
\* (den > 0); a NaN operand makes "<" false; abs of an infinite residual is
\* inf, which is below nothing; every finite residual is below +inf and
\* none is below -inf.
WithinTol(num, den, target, tol) ==
  /\ IsFinite(target)
  /\ \/ tol = PosInf
     \/ /\ IsFinite(tol)
        /\ Abs(100 * num - target.v * den) < tol.v * den

\* abs(func1) < tolerance and abs(func2) < tolerance, for a point whose
\* denominator den is not 0.
Matches(num1, num2, den, t1, t2, tol) ==
  \E d \in {den} :
    /\ WithinTol(num1, d, t1, tol)
    /\ WithinTol(num2, d, t2, tol)

\* What one pass of the inner loop body does at grid step (ii, jj):
\* "fault" when the division of your_function raises ZeroDivisionError (it
\* is the first of the two calls), else "match" when the test of line 110
\* holds, else "miss".
PointOutcome(ii, jj, a, b, t1, t2, tol) ==
  LET st == Sin2(ii)
      ct == Cos2(ii)
      sc == Sin2(jj)
      cc == Cos2(jj)
      den == Denominator(st, ct, sc, cc, a, b)
  IN  IF den = 0 THEN "fault"
      ELSE IF Matches(Numerator1(st, ct, sc, cc, a, b),
                      Numerator2(st, ct, sc, cc, a, b), den, t1, t2, tol)
             THEN "match"
             ELSE "miss"

\* The step itself returned instead of half of it: return i, j.
HalfStepWhole(k) == k * 10

\* i / 2 (and j / 2): the angle of a grid step in degrees, counted in tenths of a degree.
HalfStep(k) == k * 5

\* The value find_angles returns when the grid is exhausted.
None == [kind |-> "None"]

\* The tuple (theta, chi) find_angles returns on a match.
Pair(theta, chi) == [kind |-> "pair", theta |-> theta, chi |-> chi]

\* No value yet: find_angles has not returned.
Unset == [kind |-> "unset"]

\* The inner loop run from the far end of the row: range(720, -1, -1).
InnerLoopLast(ii, a, b, t1, t2, tol) ==
  LET stops == {jj \in 0 .. GridEnd - 1 : PointOutcome(ii, jj, a, b, t1, t2, tol) # "miss"}
  IN  IF stops = {}
        THEN [kind |-> "miss", j |-> GridEnd - 1]
        ELSE LET last == CHOOSE jj \in stops : \A k \in stops : jj >= k
             IN  [kind |-> PointOutcome(ii, last, a, b, t1, t2, tol), j |-> last]

\* The inner loop (line 101) for the row ii, run from j = 0: the first grid
\* step of the row, in ascending j, at which the body does not fall through
\* to the next j, as [kind |-> "fault" or "match", j |-> that step]; when
\* every step of the row falls through, [kind |-> "miss", j |-> the last step].
InnerLoop(ii, a, b, t1, t2, tol) ==
  LET stops == {jj \in 0 .. GridEnd - 1 : PointOutcome(ii, jj, a, b, t1, t2, tol) # "miss"}
  IN  IF stops = {}
        THEN [kind |-> "miss", j |-> GridEnd - 1]
        ELSE LET least == CHOOSE jj \in stops : \A k \in stops : jj <= k
             IN  [kind |-> PointOutcome(ii, least, a, b, t1, t2, tol), j |-> least]

\* The largest r1 tried.
MaxR == 2

R1Values == 1 .. MaxR
R2Values == {-1, 1}
Target1Values == {Fin(90)}
Target2Values == {Fin(5)}
ToleranceValues == {Fin(-5), Fin(0), Fin(5), Fin(10), Fin(40)}

\* Argument vectors <<target1, target2, tolerance>> with one value that is
\* not finite (argparse's type=float accepts "nan" and "inf").
NonFiniteArguments ==
  {<<NaN, Fin(5), Fin(5)>>, <<Fin(90), PosInf, Fin(5)>>,
   <<Fin(90), Fin(5), NaN>>, <<Fin(90), Fin(5), PosInf>>}

\* The argument vectors tried: every combination of the finite values, and
\* the vectors with one value that is not finite.
Arguments ==
  (Target1Values \X Target2Values \X ToleranceValues) \cup NonFiniteArguments

\* The grid step of an angle given in tenths of a degree: theta * pi / 180
\* of main is the angle i / 360 * pi of the scan.
StepOf(deg) == deg \div 5

\* No earlier call.
NoFirst == [result |-> Unset, tolerance |-> NaN]

\* matrix_process.py is not run.
IdleMatrix ==
  /\ mpc = "idle"
  /\ job = [exists |-> FALSE]
  /\ row = 0
  /\ returned = "unset"
  /\ exc = "none"
  /\ outFile = "absent"
  /\ mout = "none"
  /\ mstatus = -1

InitSearch ==
  /\ r1 \in R1Values /\ r2 \in R2Values
  /\ \E args \in Arguments :
       /\ target1 = args[1] /\ target2 = args[2] /\ tolerance = args[3]
  /\ i = 0 /\ j = 0
  /\ pc = "main"
  /\ result = Unset
  /\ evals1 = 0 /\ evals2 = 0
  /\ status = -1
  /\ output = "none"
  /\ first = NoFirst

Init == InitSearch /\ IdleMatrix

\* main, lines 127-135: the arguments are parsed and find_angles is called;
\* its loops start at 0, 0.
Call ==
  /\ pc = "main"
  /\ pc' = "scan"
  /\ i' = 0 /\ j' = 0
  /\ UNCHANGED <<r1, r2, target1, target2, tolerance, result, evals1, evals2, status, output, first>>
  /\ UNCHANGED matrixVars

\* find_angles, one pass of the outer loop body: the inner loop over row i.
\*  - the division raises at (i, j): the exception leaves find_angles;
\*    your_function was called at 0 .. j and another_function at 0 .. j - 1;
\*  - the test holds at (i, j): return i / 2, j / 2;
\*  - no step of the row stops the loop: the next i, or, after the last row,
\*    return None.
ScanRow ==
  /\ pc = "scan"
  /\ \E o \in {InnerLoop(i, r1, r2, target1, target2, tolerance)} :
         \/ /\ o.kind = "fault"
            /\ j' = o.j
            /\ evals1' = evals1 + o.j + 1 /\ evals2' = evals2 + o.j
            /\ pc' = "fault"
            /\ UNCHANGED <<i, result>>
         \/ /\ o.kind = "match"
            /\ j' = o.j
            /\ evals1' = evals1 + o.j + 1 /\ evals2' = evals2 + o.j + 1
            /\ result' = Pair(HalfStep(i), HalfStep(o.j))
            /\ pc' = "found"
            /\ UNCHANGED i
         \/ /\ o.kind = "miss"
            /\ j' = o.j
            /\ evals1' = evals1 + GridEnd /\ evals2' = evals2 + GridEnd
            /\ IF i + 1 < GridEnd
                 THEN /\ i' = i + 1
                      /\ UNCHANGED <<pc, result>>
                 ELSE /\ result' = None
                      /\ pc' = "exhausted"
                      /\ UNCHANGED i
  /\ UNCHANGED <<r1, r2, target1, target2, tolerance, status, output, first>>
  /\ UNCHANGED matrixVars

\* main, lines 137-139: result is None.
ReportNoSolution ==
  /\ pc = "exhausted"
  /\ output' = "no solutions found"
  /\ status' = 1
  /\ pc' = "exit"
  /\ UNCHANGED <<r1, r2, target1, target2, tolerance, i, j, result, evals1, evals2, first>>
  /\ UNCHANGED matrixVars

\* main, lines 141-151: the solution is printed with f1 and f2 evaluated
\* again at the returned angles (a division by zero there would raise).
ReportSolution ==
  /\ pc = "found"
  /\ LET ii == StepOf(result.theta)
         jj == StepOf(result.chi)
     IN  IF Denominator(Sin2(ii), Cos2(ii), Sin2(jj), Cos2(jj), r1, r2) = 0
           THEN /\ output' = "traceback" /\ status' = 1
           ELSE /\ output' = "found solution" /\ status' = 0
  /\ pc' = "exit"
  /\ UNCHANGED <<r1, r2, target1, target2, tolerance, i, j, result, evals1, evals2, first>>
  /\ UNCHANGED matrixVars

\* The ZeroDivisionError raised in find_angles is caught nowhere: the
\* interpreter prints the traceback and the process exits with status 1.
Uncaught ==
  /\ pc = "fault"
  /\ output' = "traceback"
  /\ status' = 1
  /\ pc' = "exit"
  /\ UNCHANGED <<r1, r2, target1, target2, tolerance, i, j, result, evals1, evals2, first>>
  /\ UNCHANGED matrixVars

Next == Call \/ ScanRow \/ ReportNoSolution \/ ReportSolution \/ Uncaught

Spec == Init /\ [][Next]_vars

\* x < y on floats.
FloatLess(x, y) ==
  IF IsFinite(x) /\ IsFinite(y) THEN x.v < y.v
  ELSE IF x.kind = "nan" \/ y.kind = "nan" THEN FALSE
  ELSE IF IsFinite(x) THEN y = PosInf
  ELSE IF IsFinite(y) THEN x = NegInf
  ELSE x = NegInf /\ y = PosInf

\* Every tolerance of the argument vectors.
AllTolerances == {args[3] : args \in Arguments}

\* find_angles is called a second time with r1, r2, target1 and target2 as
\* they were and a larger tolerance, after a first call that returned a pair.
CallAgain ==
  /\ pc = "found"
  /\ first = NoFirst
  /\ \E t \in AllTolerances :
       /\ FloatLess(tolerance, t)
       /\ tolerance' = t
  /\ first' = [result |-> result, tolerance |-> tolerance]
  /\ result' = Unset
  /\ pc' = "scan"
  /\ i' = 0 /\ j' = 0
  /\ evals1' = 0 /\ evals2' = 0
  /\ UNCHANGED <<r1, r2, target1, target2, status, output>>
  /\ UNCHANGED matrixVars

NextTwice == Call \/ ScanRow \/ CallAgain

SpecTwice == Init /\ [][NextTwice]_vars

(***************************************************************************)
(* matrix_process.py.  The input spreadsheet is described by what the code *)
(* asks of it: whether the file exists, whether pandas can read it, which  *)
(* columns it has, how many rows, and how many finite cells the column Axx *)
(* and the five other tensor columns hold.                                 *)
(***************************************************************************)

AColumns == {"Axx", "Axy", "Ayy", "Axz", "Ayz", "Azz"}
IColumns == {"I/aa", "I/ac", "I/cc"}
FreqColumns == {"Freq1", "Freq2"}
AllColumns == AColumns \cup IColumns \cup FreqColumns

\* The most rows of a spreadsheet tried.
MaxRows == 2

\* table[[...]] and table['...']: a missing column raises KeyError.
HasColumns(wanted, columns) == wanted \subseteq columns

\* The optional command-line argument is absent.
NoArg == [base |-> <<>>, ext |-> ""]

\* Lines 82-84: without an output name, "_result" is appended to the input's base name.
OutputName(input, outArg) ==
  IF outArg = NoArg
    THEN [base |-> Append(input.base, "_result"), ext |-> input.ext]
    ELSE outArg

\* pandas picks the writer by the file extension and raises ValueError,
\* before it opens the file, when it has none for it.
HasWriter(ext) == ext \in {".xlsx", ".xlsm"}

\* A handler for one class only: except KeyError as e.
HandlesKeyErrorOnly(e) == e = "KeyError"

\* except Exception as e (line 91): every exception raised in the try block
\* is handled by printing it and returning False.
Handles(e) == TRUE

\* equation4tensor.py is not run.
IdleSearch ==
  /\ r1 = 0 /\ r2 = 0
  /\ target1 = NaN /\ target2 = NaN /\ tolerance = NaN
  /\ i = 0 /\ j = 0
  /\ pc = "idle"
  /\ result = Unset
  /\ evals1 = 0 /\ evals2 = 0
  /\ status = -1
  /\ output = "none"
  /\ first = NoFirst

InitMatrix ==
  /\ IdleSearch
  /\ mpc = "main"
  /\ \E exists \in BOOLEAN, readable \in BOOLEAN, writable \in BOOLEAN,
        missing \in {{}} \cup {{c} : c \in AllColumns},
        rows \in 0 .. MaxRows,
        outArg \in {NoArg, [base |-> <<"out">>, ext |-> ".xlsx"],
                           [base |-> <<"out">>, ext |-> ".txt"]} :
       \E nFirst \in 0 .. rows, nRest \in 0 .. rows :
         /\ readable => exists
         /\ job = [input |-> [base |-> <<"input">>, ext |-> ".xlsx"],
                   outArg |-> outArg,
                   exists |-> exists, readable |-> readable, writable |-> writable,
                   columns |-> AllColumns \ missing,
                   rows |-> rows, nFirst |-> nFirst, nRest |-> nRest]
  /\ row = 0
  /\ returned = "unset"
  /\ exc = "none"
  /\ outFile = "absent"
  /\ mout = "none"
  /\ mstatus = -1

\* main, lines 105-111: a missing input file ends the process with status 1;
\* otherwise process_matrix is called.
MainCheck ==
  /\ mpc = "main"
  /\ IF job.exists
       THEN /\ mpc' = "read"
            /\ UNCHANGED <<mout, mstatus>>
       ELSE /\ mout' = "Error: Input file does not exist"
            /\ mstatus' = 1
            /\ mpc' = "exit"
  /\ UNCHANGED <<job, row, returned, exc, outFile>>
  /\ UNCHANGED searchVars

\* Line 36: pd.read_excel raises on a file that is no spreadsheet.
ReadExcel ==
  /\ mpc = "read"
  /\ IF job.readable
       THEN mpc' = "tensor" /\ UNCHANGED exc
       ELSE mpc' = "raised" /\ exc' = "ValueError"
  /\ UNCHANGED <<job, row, returned, outFile, mout, mstatus>>
  /\ UNCHANGED searchVars

\* Lines 39-46: the six tensor columns are selected (KeyError when one is
\* missing) and their finite cells stacked (ValueError when the columns do
\* not hold the same number of finite cells).
StackTensor ==
  /\ mpc = "tensor"
  /\ IF ~HasColumns(AColumns, job.columns)
       THEN mpc' = "raised" /\ exc' = "KeyError" /\ UNCHANGED row
       ELSE IF job.nFirst # job.nRest
         THEN mpc' = "raised" /\ exc' = "ValueError" /\ UNCHANGED row
         ELSE mpc' = "loop" /\ row' = 0 /\ UNCHANGED exc
  /\ UNCHANGED <<job, returned, outFile, mout, mstatus>>
  /\ UNCHANGED searchVars

\* Lines 49-61: one pass of the loop over the stacked rows: the matrix is
\* built, its eigenvalues and their ratios are stored.
EigenRow ==
  /\ mpc = "loop"
  /\ row < job.nRest
  /\ row' = row + 1
  /\ UNCHANGED <<mpc, job, returned, exc, outFile, mout, mstatus>>
  /\ UNCHANGED searchVars

\* Lines 64-79, after the loop: the intensity columns, then Freq1 and Freq2,
\* are read (KeyError when one is missing) and the output frame is built; its
\* columns all have the table's length, the eigenvalue columns by padding.
BuildFrame ==
  /\ mpc = "loop"
  /\ row >= job.nRest
  /\ IF HasColumns(IColumns, job.columns) /\ HasColumns(FreqColumns, job.columns)
       THEN mpc' = "write" /\ UNCHANGED exc
       ELSE mpc' = "raised" /\ exc' = "KeyError"
  /\ UNCHANGED <<job, row, returned, outFile, mout, mstatus>>
  /\ UNCHANGED searchVars

\* Lines 82-89: the output name is chosen and the frame is written: to_excel
\* raises when no writer exists for the extension or the file cannot be
\* opened for writing; otherwise the file is written and True is returned.
WriteExcel ==
  /\ mpc = "write"
  /\ IF ~HasWriter(OutputName(job.input, job.outArg).ext)
       THEN mpc' = "raised" /\ exc' = "ValueError" /\ UNCHANGED <<outFile, returned, mout>>
       ELSE IF ~job.writable
         THEN mpc' = "raised" /\ exc' = "OSError" /\ UNCHANGED <<outFile, returned, mout>>
         ELSE /\ outFile' = "complete"
              /\ mout' = "Results saved"
              /\ returned' = "True"
              /\ mpc' = "returned"
              /\ UNCHANGED exc
  /\ UNCHANGED <<job, row, mstatus>>
  /\ UNCHANGED searchVars

\* Lines 91-93: the handler prints the error and returns False; an
\* exception it does not handle leaves process_matrix and main (traceback,
\* exit status 1).
Except ==
  /\ mpc = "raised"
  /\ IF Handles(exc)
       THEN /\ mout' = "Error processing file"
            /\ returned' = "False"
            /\ mpc' = "returned"
            /\ UNCHANGED mstatus
       ELSE /\ mout' = "traceback"
            /\ mstatus' = 1
            /\ mpc' = "exit"
            /\ UNCHANGED returned
  /\ UNCHANGED <<job, row, exc, outFile>>
  /\ UNCHANGED searchVars

\* main, line 112: sys.exit(0 if success else 1).
MainExit ==
  /\ mpc = "returned"
  /\ mstatus' = IF returned = "True" THEN 0 ELSE 1
  /\ mpc' = "exit"
  /\ UNCHANGED <<job, row, returned, exc, outFile, mout>>
  /\ UNCHANGED searchVars

NextMatrix ==
  MainCheck \/ ReadExcel \/ StackTensor \/ EigenRow \/ BuildFrame \/ WriteExcel
  \/ Except \/ MainExit

SpecMatrix == InitMatrix /\ [][NextMatrix]_vars

(***************************************************************************)
(* The claims about find_angles and main of equation4tensor.py.            *)
(***************************************************************************)

\* find_angles has ended: it returned or an exception left it.
Ended == pc \in {"found", "exhausted", "fault", "exit"}

\* The test of line 110 at grid step (ii, jj) with the arguments of the run,
\* written out on the fractions: both residuals strictly below the tolerance.
BothWithin(ii, jj) ==
  LET st == Sin2(ii)
      ct == Cos2(ii)
      sc == Sin2(jj)
      cc == Cos2(jj)
      den == Denominator(st, ct, sc, cc, r1, r2)
      n1 == Numerator1(st, ct, sc, cc, r1, r2)
      n2 == Numerator2(st, ct, sc, cc, r1, r2)
  IN  /\ den # 0
      /\ IsFinite(target1) /\ IsFinite(target2)
      /\ tolerance.kind # "nan" /\ tolerance # NegInf
      /\ IsFinite(tolerance) => /\ Abs(100 * n1 - target1.v * den) < tolerance.v * den
                                /\ Abs(100 * n2 - target2.v * den) < tolerance.v * den

\* C1: a returned pair is (i / 2, j / 2) of the first grid step, in the
\* order i ascending then j ascending, that satisfies the match condition:
\* the condition holds there and at no step before it.
C1_FirstMatchInScanOrder ==
  result.kind = "pair" =>
    LET ii == StepOf(result.theta)
        jj == StepOf(result.chi)
    IN  /\ result.theta = 5 * ii /\ result.chi = 5 * jj
        /\ ii \in 0 .. 720 /\ jj \in 0 .. 720
        /\ BothWithin(ii, jj)
        /\ \A l \in 0 .. jj - 1 : ~BothWithin(ii, l)
        /\ \A k \in 0 .. ii - 1 : \A l \in 0 .. 720 : ~BothWithin(k, l)

\* C1, witness: a pair was returned from inside the grid, after rows and
\* columns that did not match, and a later step of its row matches too.
C1_Witness ==
  /\ result.kind = "pair"
  /\ result.theta > 0 /\ result.chi > 0
  /\ \E l \in StepOf(result.chi) + 1 .. 720 : BothWithin(StepOf(result.theta), l)

\* C2: find_angles ends by returning, and what it returns is None exactly
\* when no grid step satisfies the match condition (a step whose
\* denominator is 0 does not satisfy it).
C2_NoneIffNoMatch ==
  Ended =>
    /\ output # "traceback" /\ pc # "fault"
    /\ result = None <=> ~ \E k \in 0 .. 720 : \E l \in 0 .. 720 : BothWithin(k, l)

\* C3: a grid step whose denominator is 0 is skipped: no division fault
\* leaves the scan while it is at such a step, and no such step is returned.
C3_DegeneratePointSkipped ==
  /\ pc = "fault" => Denominator(Sin2(i), Cos2(i), Sin2(j), Cos2(j), r1, r2) # 0
  /\ result.kind = "pair" =>
       Denominator(Sin2(StepOf(result.theta)), Cos2(StepOf(result.theta)),
                   Sin2(StepOf(result.chi)), Cos2(StepOf(result.chi)), r1, r2) # 0

\* C4: with target1, target2 or tolerance not finite the scan is never
\* started: no grid step is evaluated.
C4_NonFiniteRejected ==
  (~IsFinite(target1) \/ ~IsFinite(target2) \/ ~IsFinite(tolerance)) =>
    /\ pc \notin {"scan", "found", "exhausted", "fault"}
    /\ evals1 = 0 /\ evals2 = 0

\* C5: a call of find_angles ends at the first match or after the whole
\* 721 x 721 grid, and calls each ratio function at most 721 * 721 times.
C5_EndsByMatchOrExhaustion ==
  /\ evals1 <= 721 * 721 /\ evals2 <= 721 * 721
  /\ Ended =>
       \/ result.kind = "pair"
       \/ result = None /\ evals1 = 721 * 721 /\ evals2 = 721 * 721

\* The pair p is not later than the pair q in the scan order.
NotLater(p, q) ==
  \/ p.theta < q.theta
  \/ p.theta = q.theta /\ p.chi <= q.chi

\* C6: when a call with tolerance T1 returned a pair, the call with the same
\* other arguments and a tolerance T2 > T1 returns a pair too, and one that
\* is not later in the scan order.
C6_ToleranceMonotone ==
  (first.result.kind = "pair" /\ pc # "scan") =>
    /\ FloatLess(first.tolerance, tolerance)
    /\ pc = "found"
    /\ result.kind = "pair"
    /\ NotLater(result, first.result)

\* C6, witness: the second call returned a pair that comes earlier in the
\* scan than the pair of the first call.
C6_Witness ==
  /\ first.result.kind = "pair"
  /\ IsFinite(first.tolerance) /\ IsFinite(tolerance)
  /\ result.kind = "pair"
  /\ result # first.result

\* C7: the process ends with status 0 exactly when find_angles returned a
\* pair and with status 1 exactly when it returned None.
C7_StatusTellsOutcome ==
  pc = "exit" =>
    /\ status \in {0, 1}
    /\ status = 0 <=> result.kind = "pair"
    /\ status = 1 <=> result = None

C10_JointStrictMatch ==
  /\ result.kind = "pair" => BothWithin(StepOf(result.theta), StepOf(result.chi))
  /\ (Ended /\ IsFinite(tolerance) /\ tolerance.v <= 0) =>
       result = None /\ evals1 = 721 * 721

(***************************************************************************)
(* The claim about matrix_process.py.                                      *)
(***************************************************************************)

\* The input spreadsheet is malformed or lacks a column.
BadSpreadsheet ==
  \/ ~job.readable
  \/ job.columns # AllColumns
  \/ job.nFirst # job.nRest

\* C9: process_matrix answers a malformed or incomplete spreadsheet by
\* printing an error and returning False, raising nothing and writing no
\* file; and every run ends either with True returned, status 0 and the
\* output file complete, or with a failure, status 1 and no output file.
C9_FailureLeavesNoOutput ==
  /\ (mpc \in {"returned", "exit"} /\ job.exists /\ BadSpreadsheet) =>
       /\ returned = "False"
       /\ mout = "Error processing file"
       /\ outFile = "absent"
  /\ mpc = "exit" =>
       \/ returned = "True" /\ mstatus = 0 /\ outFile = "complete"
       \/ returned = "False" /\ mstatus = 1 /\ outFile = "absent"
       \/ ~job.exists /\ returned = "unset" /\ mstatus = 1 /\ outFile = "absent"
  /\ outFile = "complete" => returned = "True"

\* C9, witness: a spreadsheet without one of its columns was processed to
\* the end: False was returned and there is no output file.
C9_Witness ==
  /\ mpc = "exit"
  /\ job.readable /\ job.columns # AllColumns
  /\ exc = "KeyError"
  /\ returned = "False" /\ mstatus = 1 /\ outFile = "absent"

====
